---- MODULE Spec2Model ----
(***************************************************************************)
(* A model of the dense Matrix type of src/src/Matrix.cpp: storage and     *)
(* resize, copy assignment, flat-buffer import, the dominance check,       *)
(* transpose, the arithmetic operators and Gauss-Jordan inversion, the     *)
(* latter both single-threaded and as an OpenMP team.                      *)
(*                                                                         *)
(* A double is modelled by the exact rational it holds, <<num, den>> in    *)
(* lowest terms with den > 0.                                              *)
(***************************************************************************)
EXTENDS Integers, Sequences, FiniteSets, TLC

VARIABLES
    mats,       \* the Matrix objects a and b of a caller
    last,       \* the last operation applied to them, and its object
    A, B,       \* the operands of the pure operations
    res,        \* the outcome of the last pure operation
    self,       \* the matrix inverse() is called on
    nthreads,   \* the size of the OpenMP team; 1 is the build without OpenMP
    defn,       \* which of the two definitions of inverse() in the file runs
    nsize,      \* inverse(): nsize
    mat,        \* inverse(): the working copy
    mat_inv,    \* inverse(): the accumulator
    phase,      \* inverse(): call, forward, normalize, backward, done
    status,     \* inverse(): running, ok, or how it ended
    th,         \* inverse(): each thread's position and private variables
    ret,        \* inverse(): the matrix returned
    oob,        \* an element outside the storage of mat was read
    wr,         \* the cells each thread stored to since the last barrier
    fwdDiag,    \* the diagonal of mat when forward elimination ended
    lowPivot    \* a pivot or diagonal element tested below _ZERO_LIMIT

coreVars == <<mats, last>>
opsVars  == <<A, B, res>>
invVars  == <<self, nthreads, defn, nsize, mat, mat_inv, phase, status, th,
              ret, oob, wr, fwdDiag, lowPivot>>
vars     == <<coreVars, opsVars, invVars>>

\* ------------------------------------------------------------------ bounds
\* Largest row/column count of the matrices of Spec and SpecOps.
MaxDim == 2

\* ------------------------------------------------------------- arithmetic
IAbs(x) == IF x < 0 THEN -x ELSE x

RECURSIVE Gcd(_, _)
Gcd(x, y) == IF y = 0 THEN x ELSE Gcd(y, x % y)

\* The double holding n/d.
Norm(n, d) ==
    LET g == Gcd(IAbs(n), IAbs(d))
        s == IF d < 0 THEN -1 ELSE 1
    IN  IF g = 0 THEN <<0, 0>> ELSE <<(s * n) \div g, (s * d) \div g>>

Q(n)       == <<n, 1>>
Zero       == Q(0)
One        == Q(1)
RAdd(x, y) == Norm(x[1] * y[2] + y[1] * x[2], x[2] * y[2])
RSub(x, y) == Norm(x[1] * y[2] - y[1] * x[2], x[2] * y[2])
RMul(x, y) == Norm(x[1] * y[1], x[2] * y[2])
RDiv(x, y) == Norm(x[1] * y[2], x[2] * y[1])
RAbs(x)    == <<IAbs(x[1]), x[2]>>
RLess(x, y) == x[1] * y[2] < y[1] * x[2]

\* ----------------------------------------------------------------- Matrix
\* std::vector<T>::resize(n, fill): the first n elements are kept.
VecResize(v, n, fill) == [i \in 1..n |-> IF i <= Len(v) THEN v[i] ELSE fill]

\* Matrix::resize on the object this.
resizeDiscard(this, nrows, ncols) ==
    [nrows_ |-> nrows, ncols_ |-> ncols,
     rows   |-> [i \in 1..nrows |-> [j \in 1..ncols |-> Zero]]]

resize(this, nrows, ncols) ==
    LET outer == VecResize(this.rows, nrows, <<>>)
    IN  [nrows_ |-> nrows, ncols_ |-> ncols,
         rows   |-> [i \in 1..nrows |-> VecResize(outer[i], ncols, Zero)]]

\* The storage of a Matrix before its constructor body runs: an empty vector.
\* The two size fields are set by the resize or assignment of the constructor.
EmptyStore == [nrows_ |-> 0, ncols_ |-> 0, rows |-> <<>>]

\* Matrix::Matrix(size_t nrows, size_t ncols)
MatrixRC(nrows, ncols) == resize(EmptyStore, nrows, ncols)

\* Matrix::Matrix(size_t nsize)
MatrixN(n) == resize(EmptyStore, n, n)

\* Matrix::operator= for this != &rhs.
assignKeepRows(this, rhs) ==
    [nrows_ |-> rhs.nrows_, ncols_ |-> rhs.ncols_,
     rows   |-> VecResize(this.rows, rhs.nrows_, <<>>)]

assign(this, rhs) ==
    LET outer == VecResize(this.rows, rhs.nrows_, <<>>)
    IN  [nrows_ |-> rhs.nrows_, ncols_ |-> rhs.ncols_,
         rows   |-> [i \in 1..rhs.nrows_ |->
                        LET row == VecResize(outer[i], rhs.ncols_, Zero)
                        IN  [j \in 1..rhs.ncols_ |-> rhs.rows[i][j]]]]

\* Matrix::Matrix(const Matrix &)
MatrixCopy(orig) == assign(EmptyStore, orig)

\* The flat buffers a caller hands to fromContinuousMatrix: row-major data of
\* length nrows * ncols, filled periodically from one of the sequences of Pool.
Pool ==
    << <<5, 1, 1, 1>>,
       <<-3, 1, 0>>,
       <<1, 2, 2, 4>>,
       <<0, 1, 1, 0, 2>>,
       <<4, 7, 2, 6, 1>> >>

Seeds == 1..Len(Pool)

\* The buffers the callers of Spec use.
CoreSeeds == {5}

Gen(seed, k) == Q(Pool[seed][(k % Len(Pool[seed])) + 1])

continuousMatrix(nrows, ncols, seed) ==
    [nrows |-> nrows, ncols |-> ncols, length |-> nrows * ncols,
     data  |-> [k \in 1..(nrows * ncols) |-> Gen(seed, k - 1)]]

\* Matrix::fromContinuousMatrix, past its check: resize, then one row after
\* another copied from data + values_copied.
fromContinuousMatrix(this, cm) ==
    LET m == resize(this, cm.nrows, cm.ncols)
    IN  [m EXCEPT !.rows =
            [i \in 1..Len(m.rows) |->
                [j \in 1..Len(m.rows[i]) |->
                    cm.data[(i - 1) * Len(m.rows[i]) + j]]]]

\* ------------------------------------------------------ pure operations
\* What an operation hands back: a matrix (or a bool), or the kind of the
\* runtime_error it threw.
Returned(v) == [status |-> "ok", out |-> v]
Thrown(kind) == [status |-> kind, out |-> "nothing"]

At(m, i, j) == m.rows[i + 1][j + 1]

\* operator+
opAdd(lhs, rhs) ==
    IF lhs.ncols_ /= rhs.ncols_ \/ lhs.nrows_ /= rhs.nrows_
        THEN Thrown("ShapeMismatch")
        ELSE LET mat_add == resize(MatrixRC(0, 0), lhs.nrows_, lhs.ncols_)
                 cell(i, j) == RAdd(At(lhs, i, j), At(rhs, i, j))
             IN  Returned([mat_add EXCEPT !.rows =
                              [i \in 1..Len(mat_add.rows) |->
                                  [j \in 1..Len(mat_add.rows[i]) |-> cell(i - 1, j - 1)]]])

\* operator-
opSub(lhs, rhs) ==
    IF lhs.ncols_ /= rhs.ncols_ \/ lhs.nrows_ /= rhs.nrows_
        THEN Thrown("ShapeMismatch")
        ELSE LET mat_minus == resize(MatrixRC(0, 0), lhs.nrows_, lhs.ncols_)
                 cell(i, j) == RSub(At(lhs, i, j), At(rhs, i, j))
             IN  Returned([mat_minus EXCEPT !.rows =
                              [i \in 1..Len(mat_minus.rows) |->
                                  [j \in 1..Len(mat_minus.rows[i]) |-> cell(i - 1, j - 1)]]])

\* The k loop of operator*: sum += lhs[i][k] * rhs[k][j] for k = from..mid-1.
RECURSIVE DotFrom(_, _, _, _, _, _, _)
DotFrom(lhs, rhs, i, j, k, mid, sum) ==
    IF k >= mid THEN sum
    ELSE DotFrom(lhs, rhs, i, j, k + 1, mid,
                 RAdd(sum, RMul(At(lhs, i, k), At(rhs, k, j))))

\* operator*
opMulSkipLast(lhs, rhs) ==
    IF lhs.ncols_ /= rhs.nrows_
        THEN Thrown("ShapeMismatch")
        ELSE LET mid == lhs.ncols_
                 mat_mul == resize(MatrixRC(0, 0), lhs.nrows_, rhs.ncols_)
                 cell(i, j) == DotFrom(lhs, rhs, i, j, 0, mid - 1, Zero)
             IN  Returned([mat_mul EXCEPT !.rows =
                              [i \in 1..Len(mat_mul.rows) |->
                                  [j \in 1..Len(mat_mul.rows[i]) |-> cell(i - 1, j - 1)]]])

opMul(lhs, rhs) ==
    IF lhs.ncols_ /= rhs.nrows_
        THEN Thrown("ShapeMismatch")
        ELSE LET mid == lhs.ncols_
                 nrows == lhs.nrows_
                 ncols == rhs.ncols_
                 mat_mul == resize(MatrixRC(0, 0), nrows, ncols)
                 cell(i, j) == DotFrom(lhs, rhs, i, j, 0, mid, Zero)
             IN  Returned([mat_mul EXCEPT !.rows =
                              [i \in 1..Len(mat_mul.rows) |->
                                  [j \in 1..Len(mat_mul.rows[i]) |-> cell(i - 1, j - 1)]]])

\* Matrix::transpose
transposeSquareOnly(this) ==
    LET mat_t == MatrixRC(this.nrows_, this.ncols_)
        cell(j, i) == IF i < this.nrows_ /\ j < this.ncols_
                        THEN At(this, i, j) ELSE Zero
    IN  [mat_t EXCEPT !.rows =
            [i \in 1..Len(mat_t.rows) |->
                [j \in 1..Len(mat_t.rows[i]) |-> cell(i - 1, j - 1)]]]

transpose(this) ==
    LET mat_t == MatrixRC(this.ncols_, this.nrows_)
        cell(j, i) == At(this, i, j)
    IN  [mat_t EXCEPT !.rows =
            [r \in 1..Len(mat_t.rows) |->
                [c \in 1..Len(mat_t.rows[r]) |-> cell(r - 1, c - 1)]]]

\* accumulate(row.begin(), row.end(), 0.0, abs(lhs) + abs(rhs)) from element j.
RECURSIVE Accumulate(_, _, _)
Accumulate(row, j, acc) ==
    IF j > Len(row) THEN acc
    ELSE Accumulate(row, j + 1, RAdd(RAbs(acc), RAbs(row[j])))

\* The test of row i of Matrix::checkDominant, for a row that has a diagonal.
RowFails(this, i) ==
    LET sum == Accumulate(this.rows[i + 1], 1, Zero)
    IN  RLess(At(this, i, i), RSub(sum, At(this, i, i)))

\* Matrix::checkDominant: the values it can return. A row i >= ncols_ has no
\* element [i][i]; what the read past the row's end yields is not determined,
\* so once such a row is reached every outcome is possible.
checkDominant(this) ==
    LET diag == IF this.nrows_ < this.ncols_ THEN this.nrows_ ELSE this.ncols_
    IN  IF \E i \in 0..(diag - 1) : RowFails(this, i)
            THEN {Returned(FALSE)}
        ELSE IF this.nrows_ > this.ncols_
            THEN {Returned(TRUE), Returned(FALSE), Thrown("crash")}
        ELSE {Returned(TRUE)}

\* ------------------------------------------------- Spec: the Matrix core
Objs == {"a", "b"}
Dims == 0..MaxDim
None == [nrows_ |-> 0, ncols_ |-> 0, rows |-> <<>>, none |-> TRUE]

OpsIdle == A = None /\ B = None /\ res = [op |-> "idle"]

InvIdle ==
    /\ self = None /\ nthreads = 0 /\ defn = 0 /\ nsize = 0
    /\ mat = None /\ mat_inv = None /\ phase = "idle" /\ status = "idle"
    /\ th = <<>> /\ ret = "nothing" /\ oob = FALSE /\ wr = <<>>
    /\ fwdDiag = <<>> /\ lowPivot = FALSE

\* Both objects constructed by Matrix(0, 0).
Init ==
    /\ mats = [x \in Objs |-> MatrixRC(0, 0)]
    /\ last = <<"construct", "a">>
    /\ OpsIdle
    /\ InvIdle

Resize(x, nrows, ncols) ==
    /\ mats' = [mats EXCEPT ![x] = resize(@, nrows, ncols)]
    /\ last' = <<"resize", x, nrows, ncols>>
    /\ UNCHANGED <<opsVars, invVars>>

\* x = y: the self-assignment test of operator= leaves the object alone.
Assign(x, y) ==
    /\ mats' = IF x = y THEN mats ELSE [mats EXCEPT ![x] = assign(@, mats[y])]
    /\ last' = <<"assign", x>>
    /\ UNCHANGED <<opsVars, invVars>>

\* x goes out of scope and is constructed again as a copy of y.
CopyConstruct(x, y) ==
    /\ x /= y
    /\ mats' = [mats EXCEPT ![x] = MatrixCopy(mats[y])]
    /\ last' = <<"copy", x>>
    /\ UNCHANGED <<opsVars, invVars>>

FromContinuousMatrix(x, nrows, ncols, seed) ==
    LET cm == continuousMatrix(nrows, ncols, seed)
    IN  /\ IF cm.nrows = 0 \/ cm.ncols = 0
              THEN /\ mats' = mats
                   /\ last' = <<"fromContinuousMatrix throws", x>>
              ELSE /\ mats' = [mats EXCEPT ![x] = fromContinuousMatrix(@, cm)]
                   /\ last' = <<"fromContinuousMatrix", x>>
        /\ UNCHANGED <<opsVars, invVars>>

Next ==
    \/ \E x \in Objs, r \in Dims, c \in Dims : Resize(x, r, c)
    \/ \E x \in Objs, y \in Objs : Assign(x, y)
    \/ \E x \in Objs, y \in Objs : CopyConstruct(x, y)
    \/ \E x \in Objs, r \in Dims, c \in Dims, s \in CoreSeeds :
            FromContinuousMatrix(x, r, c, s)

Spec == Init /\ [][Next]_vars

\* --------------------------------------- SpecOps: the pure operations
\* A matrix as a caller builds it: constructed, then filled from a buffer.
Build(nrows, ncols, seed) ==
    IF nrows = 0 \/ ncols = 0
        THEN MatrixRC(nrows, ncols)
        ELSE fromContinuousMatrix(MatrixRC(0, 0),
                                  continuousMatrix(nrows, ncols, seed))

Inputs == {Build(r, c, s) : r \in Dims, c \in Dims, s \in Seeds}

CoreIdle ==
    /\ mats = [x \in Objs |-> MatrixRC(0, 0)]
    /\ last = <<"construct", "a">>

InitOps ==
    /\ A \in Inputs
    /\ B \in Inputs
    /\ res = [op |-> "none"]
    /\ CoreIdle
    /\ InvIdle

\* res keeps the operands as they were before the call.
Outcome(op, r) ==
    [op |-> op, status |-> r.status, out |-> r.out, lhs |-> A, rhs |-> B]

Add ==
    /\ res' = Outcome("add", opAdd(A, B))
    /\ UNCHANGED <<A, B, coreVars, invVars>>

Sub ==
    /\ res' = Outcome("sub", opSub(A, B))
    /\ UNCHANGED <<A, B, coreVars, invVars>>

Mul ==
    /\ res' = Outcome("mul", opMul(A, B))
    /\ UNCHANGED <<A, B, coreVars, invVars>>

Transpose ==
    /\ res' = Outcome("transpose", Returned(transpose(A)))
    /\ UNCHANGED <<A, B, coreVars, invVars>>

CheckDominant ==
    /\ \E r \in checkDominant(A) : res' = Outcome("checkDominant", r)
    /\ UNCHANGED <<A, B, coreVars, invVars>>

NextOps == Add \/ Sub \/ Mul \/ Transpose \/ CheckDominant

SpecOps == InitOps /\ [][NextOps]_vars

\* -------------------------------------------------- Matrix::inverse
\* Largest size of the square matrices SpecSeq inverts.
MaxN == 3

\* How many reads past the end of an empty store yield a value before the
\* run leaves mapped memory.
OobCap == 2

\* What a read outside the storage can yield, when it yields a value.
Garbage == {Zero, One}

\* size_t arithmetic is modulo SizeMod; 2^30 stands for 2^64, which the
\* sizes of the model stay as far below.
SizeMod == 1073741824
SizeT(x) == x % SizeMod

\* size_t to int, as in int i = nsize - 2.
ToInt(u) == IF u >= SizeMod \div 2 THEN u - SizeMod ELSE u

\* _ZERO_LIMIT = 1.0e-9 = 1 / ZeroLimitDen
ZeroLimitDen == 1000000000

\* abs(v) < _ZERO_LIMIT. A numerator of 3 or more is above the limit for
\* every denominator the model's integers hold.
BelowZeroLimit(v) ==
    \/ v[1] = 0
    \/ IAbs(v[1]) <= 2 /\ IAbs(v[1]) * ZeroLimitDen < v[2]

Threads == 0..(nthreads - 1)

Min(x, y) == IF x < y THEN x ELSE y
Max(x, y) == IF x > y THEN x ELSE y

\* schedule(static): cnt iterations in at most one contiguous chunk per
\* thread, the first cnt % nthreads chunks one iteration longer.
ChunkLo(t, cnt) == t * (cnt \div nthreads) + Min(t, cnt % nthreads)
ChunkHi(t, cnt) == ChunkLo(t + 1, cnt)

SetCell(m, i, j, v) == [m EXCEPT !.rows[i + 1][j + 1] = v]

\* mat_inv(nsize) with mat_inv[i][i] = 1
IdentityInit(n) ==
    LET z == MatrixN(n)
    IN  [z EXCEPT !.rows = [i \in 1..n |-> [z.rows[i] EXCEPT ![i] = One]]]

\* double coef = mat[i][k] / mat[k][k]
ForwardCoefInverted(m, i, k) == RDiv(At(m, k, k), At(m, i, k))

ForwardCoef(m, i, k) == RDiv(At(m, i, k), At(m, k, k))

\* The right-hand side of  m[i][j] -= m[k][j] * coef
Eliminated(m, i, k, j, coef) == RSub(At(m, i, j), RMul(At(m, k, j), coef))

\* The right-hand side of  mat_inv[i][m] -= mat_inv[j][m] * mat[i][j]
BackSubstituted(i, j, m) ==
    RSub(At(mat_inv, i, m), RMul(At(mat_inv, j, m), At(mat, i, j)))

\* The right-hand side of  mat[i][j] -= mat[j][j] * mat[i][j]
BackCleared(i, j) == RSub(At(mat, i, j), RMul(At(mat, j, j), At(mat, i, j)))

Idle == [pc |-> "idle", k |-> 0, it |-> 0, hi |-> 0, j |-> 0,
         coef |-> Zero, tmp |-> Zero]

NoWrites == [t \in Threads |-> {}]

\* A thread reaches an omp for of cnt iterations: it starts on its chunk, or
\* goes to the loop's closing barrier when its chunk is empty.
EnterLoop(t, r, cnt, body, barrier) ==
    LET lo == ChunkLo(t, cnt)
        hi == ChunkHi(t, cnt)
    IN  [r EXCEPT !.it = lo, !.hi = hi, !.j = 0,
                  !.pc = IF lo < hi THEN body ELSE barrier]

Running(t, pc) == status = "running" /\ t \in Threads /\ th[t].pc = pc

frame == <<coreVars, opsVars, self, nthreads, defn>>

\* if (nrows_ != ncols_) throw runtime_error("Matrix should be square!")
NotSquare ==
    /\ phase = "call"
    /\ self.nrows_ /= self.ncols_
    /\ status' = "ShapeMismatch"
    /\ phase' = "done"
    /\ UNCHANGED <<frame, nsize, mat, mat_inv, th, ret, oob, wr, fwdDiag, lowPivot>>

\* The copies are made and the team enters the forward elimination region.
Enter ==
    /\ phase = "call"
    /\ self.nrows_ = self.ncols_
    /\ nsize' = self.nrows_
    /\ mat_inv' = IdentityInit(self.nrows_)
    /\ mat' = MatrixCopy(self)
    /\ phase' = "forward"
    /\ th' = [t \in Threads |-> [Idle EXCEPT !.pc = "F_test"]]
    /\ wr' = NoWrites
    /\ UNCHANGED <<frame, status, ret, oob, fwdDiag, lowPivot>>

\* A runtime_error leaves inverse(). Without OpenMP it reaches the caller;
\* thrown out of a parallel region it ends the program.
Throw ==
    /\ status' = IF nthreads = 1 THEN "SingularMatrix" ELSE "terminate"
    /\ phase' = "done"

\* for (size_t k = 0; k < nsize - 1; k++)
ForwardTest(t) ==
    /\ Running(t, "F_test")
    /\ th' = [th EXCEPT ![t].pc =
                 IF th[t].k < SizeT(nsize - 1) THEN "F_check" ELSE "join"]
    /\ UNCHANGED <<frame, nsize, mat, mat_inv, phase, status, ret, oob, wr,
                   fwdDiag, lowPivot>>

\* if (abs(mat[k][k]) < _ZERO_LIMIT) throw, for an element mat has.
ForwardCheck(t) ==
    /\ Running(t, "F_check")
    /\ th[t].k < nsize
    /\ IF BelowZeroLimit(At(mat, th[t].k, th[t].k))
          THEN /\ Throw
               /\ lowPivot' = TRUE
               /\ UNCHANGED th
          ELSE /\ th' = [th EXCEPT ![t] =
                            EnterLoop(t, @, Max(0, nsize - (th[t].k + 1)),
                                      "F_coef", "F_barrier")]
               /\ UNCHANGED <<status, phase, lowPivot>>
    /\ UNCHANGED <<frame, nsize, mat, mat_inv, ret, oob, wr, fwdDiag>>

\* The same test when mat has no row k: the read is outside the storage. It
\* ends the program, or yields some value.
ForwardCheckOutside(t) ==
    /\ Running(t, "F_check")
    /\ th[t].k >= nsize
    /\ oob' = TRUE
    /\ \/ /\ status' = "crash"
          /\ phase' = "done"
          /\ UNCHANGED th
       \/ /\ th[t].k < OobCap
          /\ \E g \in Garbage :
                IF BelowZeroLimit(g)
                    THEN /\ Throw
                         /\ UNCHANGED th
                    ELSE /\ th' = [th EXCEPT ![t] =
                                EnterLoop(t, @, Max(0, nsize - (th[t].k + 1)),
                                          "F_coef", "F_barrier")]
                         /\ UNCHANGED <<status, phase>>
    /\ UNCHANGED <<frame, nsize, mat, mat_inv, ret, wr, fwdDiag, lowPivot>>

\* double coef = mat[i][k] / mat[k][k], for i = k + 1 + it
ForwardReadCoef(t) ==
    /\ Running(t, "F_coef")
    /\ th' = [th EXCEPT ![t].coef = ForwardCoef(mat, th[t].k + 1 + th[t].it, th[t].k),
                        ![t].j = th[t].k,
                        ![t].pc = "F_mat_ld"]
    /\ UNCHANGED <<frame, nsize, mat, mat_inv, phase, status, ret, oob, wr,
                   fwdDiag, lowPivot>>

\* mat[i][j] -= mat[k][j] * coef: the value is computed ...
ForwardMatLoad(t) ==
    /\ Running(t, "F_mat_ld")
    /\ th' = [th EXCEPT ![t].tmp = Eliminated(mat, th[t].k + 1 + th[t].it,
                                              th[t].k, th[t].j, th[t].coef),
                        ![t].pc = "F_mat_st"]
    /\ UNCHANGED <<frame, nsize, mat, mat_inv, phase, status, ret, oob, wr,
                   fwdDiag, lowPivot>>

\* ... and stored; j++, and after the last j the loop over mat_inv starts.
ForwardMatStore(t) ==
    /\ Running(t, "F_mat_st")
    /\ LET i == th[t].k + 1 + th[t].it
       IN  /\ mat' = SetCell(mat, i, th[t].j, th[t].tmp)
           /\ wr' = [wr EXCEPT ![t] = @ \cup {<<"mat", i, th[t].j>>}]
    /\ th' = IF th[t].j + 1 < nsize
                THEN [th EXCEPT ![t].j = @ + 1, ![t].pc = "F_mat_ld"]
                ELSE [th EXCEPT ![t].j = 0, ![t].pc = "F_inv_ld"]
    /\ UNCHANGED <<frame, nsize, mat_inv, phase, status, ret, oob, fwdDiag,
                   lowPivot>>

\* mat_inv[i][j] -= mat_inv[k][j] * coef: the value is computed ...
ForwardInvLoad(t) ==
    /\ Running(t, "F_inv_ld")
    /\ th' = [th EXCEPT ![t].tmp = Eliminated(mat_inv, th[t].k + 1 + th[t].it,
                                              th[t].k, th[t].j, th[t].coef),
                        ![t].pc = "F_inv_st"]
    /\ UNCHANGED <<frame, nsize, mat, mat_inv, phase, status, ret, oob, wr,
                   fwdDiag, lowPivot>>

\* ... and stored; j++, and after the last j the next row i of the chunk.
ForwardInvStore(t) ==
    /\ Running(t, "F_inv_st")
    /\ LET i == th[t].k + 1 + th[t].it
       IN  /\ mat_inv' = SetCell(mat_inv, i, th[t].j, th[t].tmp)
           /\ wr' = [wr EXCEPT ![t] = @ \cup {<<"mat_inv", i, th[t].j>>}]
    /\ th' = IF th[t].j + 1 < nsize
                THEN [th EXCEPT ![t].j = @ + 1, ![t].pc = "F_inv_ld"]
             ELSE IF th[t].it + 1 < th[t].hi
                THEN [th EXCEPT ![t].it = @ + 1, ![t].pc = "F_coef"]
             ELSE [th EXCEPT ![t].pc = "F_barrier"]
    /\ UNCHANGED <<frame, nsize, mat, phase, status, ret, oob, fwdDiag,
                   lowPivot>>

\* The barrier that closes the omp for over i; then k++.
ForwardBarrier ==
    /\ status = "running"
    /\ \A t \in Threads : th[t].pc = "F_barrier"
    /\ th' = [t \in Threads |-> [th[t] EXCEPT !.k = @ + 1, !.pc = "F_test"]]
    /\ wr' = NoWrites
    /\ UNCHANGED <<frame, nsize, mat, mat_inv, phase, status, ret, oob,
                   fwdDiag, lowPivot>>

\* The forward region ends; the team enters the normalization region.
ForwardJoin ==
    /\ status = "running" /\ phase = "forward"
    /\ \A t \in Threads : th[t].pc = "join"
    /\ phase' = "normalize"
    /\ th' = [t \in Threads |-> [Idle EXCEPT !.pc = "N_test"]]
    /\ fwdDiag' = [i \in 1..nsize |-> mat.rows[i][i]]
    /\ wr' = NoWrites
    /\ UNCHANGED <<frame, nsize, mat, mat_inv, status, ret, oob, lowPivot>>

\* for (size_t i = 0; i < nsize; i++), the row index held in k
NormalizeTest(t) ==
    /\ Running(t, "N_test")
    /\ th' = [th EXCEPT ![t].pc = IF th[t].k < nsize THEN "N_check" ELSE "join"]
    /\ UNCHANGED <<frame, nsize, mat, mat_inv, phase, status, ret, oob, wr,
                   fwdDiag, lowPivot>>

\* if (abs(mat[i][i]) < _ZERO_LIMIT) throw
NormalizeCheck(t) ==
    /\ Running(t, "N_check")
    /\ IF BelowZeroLimit(At(mat, th[t].k, th[t].k))
          THEN /\ Throw
               /\ lowPivot' = TRUE
               /\ UNCHANGED th
          ELSE /\ th' = [th EXCEPT ![t].pc = "N_coef"]
               /\ UNCHANGED <<status, phase, lowPivot>>
    /\ UNCHANGED <<frame, nsize, mat, mat_inv, ret, oob, wr, fwdDiag>>

\* The omp for over j = i .. nsize-1 that divides row i of mat.
EnterNormalizeMat(t, r) ==
    EnterLoop(t, r, nsize - r.k, "N_mat_ld", "N_barrier1")

\* double coef = mat[i][i]; the second definition then waits at an
\* omp barrier, the first goes on into the omp for.
NormalizeReadCoef(t) ==
    /\ Running(t, "N_coef")
    /\ LET r == [th[t] EXCEPT !.coef = At(mat, th[t].k, th[t].k)]
       IN  th' = [th EXCEPT ![t] = IF defn = 2
                                      THEN [r EXCEPT !.pc = "N_sync"]
                                      ELSE EnterNormalizeMat(t, r)]
    /\ UNCHANGED <<frame, nsize, mat, mat_inv, phase, status, ret, oob, wr,
                   fwdDiag, lowPivot>>

\* #pragma omp barrier of the second definition
NormalizeSync ==
    /\ status = "running"
    /\ \A t \in Threads : th[t].pc = "N_sync"
    /\ th' = [t \in Threads |-> EnterNormalizeMat(t, th[t])]
    /\ UNCHANGED <<frame, nsize, mat, mat_inv, phase, status, ret, oob, wr,
                   fwdDiag, lowPivot>>

\* mat[i][j] /= coef, for j = i + it: the quotient is computed ...
NormalizeMatLoad(t) ==
    /\ Running(t, "N_mat_ld")
    /\ th' = [th EXCEPT ![t].tmp = RDiv(At(mat, th[t].k, th[t].k + th[t].it),
                                        th[t].coef),
                        ![t].pc = "N_mat_st"]
    /\ UNCHANGED <<frame, nsize, mat, mat_inv, phase, status, ret, oob, wr,
                   fwdDiag, lowPivot>>

\* ... and stored.
NormalizeMatStore(t) ==
    /\ Running(t, "N_mat_st")
    /\ LET j == th[t].k + th[t].it
       IN  /\ mat' = SetCell(mat, th[t].k, j, th[t].tmp)
           /\ wr' = [wr EXCEPT ![t] = @ \cup {<<"mat", th[t].k, j>>}]
    /\ th' = IF th[t].it + 1 < th[t].hi
                THEN [th EXCEPT ![t].it = @ + 1, ![t].pc = "N_mat_ld"]
                ELSE [th EXCEPT ![t].pc = "N_barrier1"]
    /\ UNCHANGED <<frame, nsize, mat_inv, phase, status, ret, oob, fwdDiag,
                   lowPivot>>

\* The barrier that closes the first omp for; the second, over
\* j = 0 .. nsize-1, divides row i of mat_inv.
NormalizeBarrier1 ==
    /\ status = "running"
    /\ \A t \in Threads : th[t].pc = "N_barrier1"
    /\ th' = [t \in Threads |->
                 EnterLoop(t, th[t], nsize, "N_inv_ld", "N_barrier2")]
    /\ wr' = NoWrites
    /\ UNCHANGED <<frame, nsize, mat, mat_inv, phase, status, ret, oob,
                   fwdDiag, lowPivot>>

\* mat_inv[i][j] /= coef, for j = it: the quotient is computed ...
NormalizeInvLoad(t) ==
    /\ Running(t, "N_inv_ld")
    /\ th' = [th EXCEPT ![t].tmp = RDiv(At(mat_inv, th[t].k, th[t].it),
                                        th[t].coef),
                        ![t].pc = "N_inv_st"]
    /\ UNCHANGED <<frame, nsize, mat, mat_inv, phase, status, ret, oob, wr,
                   fwdDiag, lowPivot>>

\* ... and stored.
NormalizeInvStore(t) ==
    /\ Running(t, "N_inv_st")
    /\ mat_inv' = SetCell(mat_inv, th[t].k, th[t].it, th[t].tmp)
    /\ wr' = [wr EXCEPT ![t] = @ \cup {<<"mat_inv", th[t].k, th[t].it>>}]
    /\ th' = IF th[t].it + 1 < th[t].hi
                THEN [th EXCEPT ![t].it = @ + 1, ![t].pc = "N_inv_ld"]
                ELSE [th EXCEPT ![t].pc = "N_barrier2"]
    /\ UNCHANGED <<frame, nsize, mat, phase, status, ret, oob, fwdDiag,
                   lowPivot>>

\* The barrier that closes the second omp for; then i++.
NormalizeBarrier2 ==
    /\ status = "running"
    /\ \A t \in Threads : th[t].pc = "N_barrier2"
    /\ th' = [t \in Threads |-> [th[t] EXCEPT !.k = @ + 1, !.pc = "N_test"]]
    /\ wr' = NoWrites
    /\ UNCHANGED <<frame, nsize, mat, mat_inv, phase, status, ret, oob,
                   fwdDiag, lowPivot>>

\* The normalization region ends; the team enters backward elimination
\* with int i = nsize - 2.
NormalizeJoin ==
    /\ status = "running" /\ phase = "normalize"
    /\ \A t \in Threads : th[t].pc = "join"
    /\ phase' = "backward"
    /\ th' = [t \in Threads |->
                 [Idle EXCEPT !.pc = "B_test", !.k = ToInt(SizeT(nsize - 2))]]
    /\ wr' = NoWrites
    /\ UNCHANGED <<frame, nsize, mat, mat_inv, status, ret, oob, fwdDiag,
                   lowPivot>>

\* for (int i = nsize - 2; i >= 0; i--), and the omp for over
\* j = nsize-1 .. i+1 inside it; j = nsize - 1 - it, and th[t].j holds m.
BackwardTest(t) ==
    /\ Running(t, "B_test")
    /\ th' = [th EXCEPT ![t] =
                 IF th[t].k >= 0
                     THEN EnterLoop(t, @, Max(0, (nsize - 1) - th[t].k),
                                    "B_inv_ld", "B_barrier")
                     ELSE [@ EXCEPT !.pc = "join"]]
    /\ UNCHANGED <<frame, nsize, mat, mat_inv, phase, status, ret, oob, wr,
                   fwdDiag, lowPivot>>

\* mat_inv[i][m] -= mat_inv[j][m] * mat[i][j]: the value is computed ...
BackwardInvLoad(t) ==
    /\ Running(t, "B_inv_ld")
    /\ th' = [th EXCEPT ![t].tmp = BackSubstituted(th[t].k,
                                       (nsize - 1) - th[t].it, th[t].j),
                        ![t].pc = "B_inv_st"]
    /\ UNCHANGED <<frame, nsize, mat, mat_inv, phase, status, ret, oob, wr,
                   fwdDiag, lowPivot>>

\* ... and stored; m++, and after the last m the update of mat[i][j].
BackwardInvStore(t) ==
    /\ Running(t, "B_inv_st")
    /\ mat_inv' = SetCell(mat_inv, th[t].k, th[t].j, th[t].tmp)
    /\ wr' = [wr EXCEPT ![t] = @ \cup {<<"mat_inv", th[t].k, th[t].j>>}]
    /\ th' = IF th[t].j + 1 < nsize
                THEN [th EXCEPT ![t].j = @ + 1, ![t].pc = "B_inv_ld"]
                ELSE [th EXCEPT ![t].pc = "B_mat_ld"]
    /\ UNCHANGED <<frame, nsize, mat, phase, status, ret, oob, fwdDiag,
                   lowPivot>>

\* mat[i][j] -= mat[j][j] * mat[i][j]: the value is computed ...
BackwardMatLoad(t) ==
    /\ Running(t, "B_mat_ld")
    /\ th' = [th EXCEPT ![t].tmp = BackCleared(th[t].k, (nsize - 1) - th[t].it),
                        ![t].pc = "B_mat_st"]
    /\ UNCHANGED <<frame, nsize, mat, mat_inv, phase, status, ret, oob, wr,
                   fwdDiag, lowPivot>>

\* ... and stored; then the next j of the chunk.
BackwardMatStore(t) ==
    /\ Running(t, "B_mat_st")
    /\ LET j == (nsize - 1) - th[t].it
       IN  /\ mat' = SetCell(mat, th[t].k, j, th[t].tmp)
           /\ wr' = [wr EXCEPT ![t] = @ \cup {<<"mat", th[t].k, j>>}]
    /\ th' = IF th[t].it + 1 < th[t].hi
                THEN [th EXCEPT ![t].it = @ + 1, ![t].j = 0, ![t].pc = "B_inv_ld"]
                ELSE [th EXCEPT ![t].pc = "B_barrier"]
    /\ UNCHANGED <<frame, nsize, mat_inv, phase, status, ret, oob, fwdDiag,
                   lowPivot>>

\* The barrier that closes the omp for over j; then i--.
BackwardBarrier ==
    /\ status = "running"
    /\ \A t \in Threads : th[t].pc = "B_barrier"
    /\ th' = [t \in Threads |-> [th[t] EXCEPT !.k = @ - 1, !.pc = "B_test"]]
    /\ wr' = NoWrites
    /\ UNCHANGED <<frame, nsize, mat, mat_inv, phase, status, ret, oob,
                   fwdDiag, lowPivot>>

\* The backward region ends: return (mat_inv).
Return ==
    /\ status = "running" /\ phase = "backward"
    /\ \A t \in Threads : th[t].pc = "join"
    /\ ret' = mat_inv
    /\ status' = "ok"
    /\ phase' = "done"
    /\ UNCHANGED <<frame, nsize, mat, mat_inv, th, oob, wr, fwdDiag, lowPivot>>

NextInv ==
    \/ NotSquare
    \/ Enter
    \/ ForwardJoin
    \/ ForwardBarrier
    \/ NormalizeSync
    \/ NormalizeBarrier1
    \/ NormalizeBarrier2
    \/ NormalizeJoin
    \/ BackwardBarrier
    \/ Return
    \/ \E t \in Threads :
        \/ ForwardTest(t)
        \/ ForwardCheck(t)
        \/ ForwardCheckOutside(t)
        \/ ForwardReadCoef(t)
        \/ ForwardMatLoad(t)
        \/ ForwardMatStore(t)
        \/ ForwardInvLoad(t)
        \/ ForwardInvStore(t)
        \/ NormalizeTest(t)
        \/ NormalizeCheck(t)
        \/ NormalizeReadCoef(t)
        \/ NormalizeMatLoad(t)
        \/ NormalizeMatStore(t)
        \/ NormalizeInvLoad(t)
        \/ NormalizeInvStore(t)
        \/ BackwardTest(t)
        \/ BackwardInvLoad(t)
        \/ BackwardInvStore(t)
        \/ BackwardMatLoad(t)
        \/ BackwardMatStore(t)

\* A call of inverse() on one of the inputs by a team of n threads.
InitInv(inputs, n) ==
    /\ self \in inputs
    /\ nthreads = n
    /\ defn \in {1, 2}
    /\ nsize = 0
    /\ mat = EmptyStore
    /\ mat_inv = EmptyStore
    /\ phase = "call"
    /\ status = "running"
    /\ th = [t \in 0..(n - 1) |-> Idle]
    /\ ret = "nothing"
    /\ oob = FALSE
    /\ wr = [t \in 0..(n - 1) |-> {}]
    /\ fwdDiag = <<>>
    /\ lowPivot = FALSE
    /\ CoreIdle
    /\ OpsIdle

\* SpecSeq: inverse() single-threaded, on every square input up to MaxN and
\* on two inputs that are not square.
SeqInputs ==
    {Build(n, n, s) : n \in 0..MaxN, s \in Seeds}
        \cup {Build(1, 2, 1), Build(2, 1, 5)}

InitSeq == InitInv(SeqInputs, 1)

SpecSeq == InitSeq /\ [][NextInv]_vars

\* SpecPar: inverse() run by a team of NumThreads threads.
NumThreads == 2

ParInputs ==
    {Build(3, 3, 1), Build(3, 3, 3), Build(3, 3, 2), Build(2, 2, 3),
     Build(0, 0, 1), Build(1, 2, 1)}

InitPar == InitInv(ParInputs, NumThreads)

SpecPar == InitPar /\ [][NextInv]_vars

\* ------------------------------------------------------------ properties
Cells(m) == {<<i, j>> : i \in 0..(m.nrows_ - 1), j \in 0..(m.ncols_ - 1)}

\* The backing store of m has nrows_ rows of ncols_ elements each.
Rectangular(m) ==
    /\ Len(m.rows) = m.nrows_
    /\ \A i \in 1..Len(m.rows) : Len(m.rows[i]) = m.ncols_

RECURSIVE SumSeq(_)
SumSeq(s) == IF s = <<>> THEN Zero ELSE RAdd(Head(s), SumSeq(Tail(s)))

\* C3 as stated: after resize(r, c) on a matrix in any prior state, every
\* cell of the matrix equals 0.
C3_ResizeDiscards ==
    last[1] = "resize" =>
        LET m == mats[last[2]]
        IN  /\ m.nrows_ = last[3] /\ m.ncols_ = last[4]
            /\ \A p \in Cells(m) : At(m, p[1], p[2]) = Zero

\* C3 amended: after resize(r, c) the matrix is r x c; a cell [i][j] that
\* existed before (i below the old row count, j below the old column count)
\* keeps its value, and every other cell equals 0.
C3_ResizeKeepsOldCells ==
    [][last'[1] = "resize" =>
          LET x == last'[2]
              r == last'[3]
              c == last'[4]
          IN  /\ mats'[x].nrows_ = r
              /\ mats'[x].ncols_ = c
              /\ Rectangular(mats'[x])
              /\ \A i \in 0..(r - 1), j \in 0..(c - 1) :
                    At(mats'[x], i, j) =
                        IF i < mats[x].nrows_ /\ j < mats[x].ncols_
                            THEN At(mats[x], i, j) ELSE Zero]_vars

\* A resize that grew a matrix and kept a nonzero cell next to new zero cells.
C3_Witness ==
    /\ last = <<"resize", "a", 2, 2>>
    /\ mats["a"].nrows_ = 2 /\ mats["a"].ncols_ = 2
    /\ At(mats["a"], 0, 0) /= Zero
    /\ At(mats["a"], 1, 1) = Zero

\* |a[i][i]| is at least the sum of the magnitudes of the other entries of
\* row i.
RowDominant(m, i) ==
    LET others == [j \in 1..m.ncols_ |->
                      IF j = i + 1 THEN Zero ELSE RAbs(m.rows[i + 1][j])]
    IN  ~RLess(RAbs(At(m, i, i)), SumSeq(others))

\* C4: on a square matrix checkDominant returns true if and only if every
\* row's diagonal magnitude is at least the sum of the magnitudes of the
\* row's other entries, rows with a negative diagonal entry included.
C4_DominantIffMagnitudes ==
    (res.op = "checkDominant" /\ A.nrows_ = A.ncols_) =>
        /\ res.status = "ok"
        /\ res.out = (\A i \in 0..(A.nrows_ - 1) : RowDominant(A, i))

\* C5: +, - and * throw ShapeMismatch, return nothing and leave the operands
\* alone exactly when the shapes are incompatible; otherwise the result has
\* the shape and the cells of the sum, difference or product.
C5_Arithmetic ==
    /\ res.op \in {"add", "sub"} =>
          /\ res.lhs = A /\ res.rhs = B
          /\ (res.status = "ShapeMismatch") =
                (A.nrows_ /= B.nrows_ \/ A.ncols_ /= B.ncols_)
          /\ res.status \in {"ok", "ShapeMismatch"}
          /\ res.status = "ShapeMismatch" => res.out = "nothing"
          /\ res.status = "ok" =>
                /\ res.out.nrows_ = A.nrows_ /\ res.out.ncols_ = A.ncols_
                /\ Rectangular(res.out)
                /\ \A p \in Cells(A) :
                      At(res.out, p[1], p[2]) =
                          IF res.op = "add"
                              THEN RAdd(At(A, p[1], p[2]), At(B, p[1], p[2]))
                              ELSE RSub(At(A, p[1], p[2]), At(B, p[1], p[2]))
    /\ res.op = "mul" =>
          /\ res.lhs = A /\ res.rhs = B
          /\ (res.status = "ShapeMismatch") = (A.ncols_ /= B.nrows_)
          /\ res.status \in {"ok", "ShapeMismatch"}
          /\ res.status = "ShapeMismatch" => res.out = "nothing"
          /\ res.status = "ok" =>
                /\ res.out.nrows_ = A.nrows_ /\ res.out.ncols_ = B.ncols_
                /\ Rectangular(res.out)
                /\ \A i \in 0..(A.nrows_ - 1), j \in 0..(B.ncols_ - 1) :
                      At(res.out, i, j) =
                          SumSeq([k \in 1..A.ncols_ |->
                                     RMul(At(A, i, k - 1), At(B, k - 1, j))])

\* A 2 x 2 product of a 2 x 2 by a 2 x 2 with nonzero cells.
C5_Witness ==
    /\ res.op = "mul" /\ res.status = "ok"
    /\ A.nrows_ = 2 /\ A.ncols_ = 2 /\ B.ncols_ = 2
    /\ At(res.out, 1, 1) /= Zero
    /\ At(A, 1, 1) /= Zero /\ At(B, 1, 1) /= Zero

\* C6: transpose of an r x c matrix, r or c = 0 included, is a new c x r
\* matrix with [j][i] = A[i][j]; A is unchanged; transposing twice gives A
\* back exactly.
C6_Transpose ==
    res.op = "transpose" =>
        /\ res.status = "ok"
        /\ res.lhs = A
        /\ res.out.nrows_ = A.ncols_ /\ res.out.ncols_ = A.nrows_
        /\ Rectangular(res.out)
        /\ \A p \in Cells(A) : At(res.out, p[2], p[1]) = At(A, p[1], p[2])
        /\ transpose(res.out) = A

\* The transpose of a 1 x 2 matrix with two different cells.
C6_Witness ==
    /\ res.op = "transpose"
    /\ A.nrows_ = 1 /\ A.ncols_ = 2
    /\ At(A, 0, 0) /= At(A, 0, 1)
    /\ res.out.nrows_ = 2

\* C7: after any sequence of resize, copy assignment, copy construction and
\* fromContinuousMatrix the store has nrows_ rows of ncols_ elements, and
\* resizing one object leaves every other object as it was.
C7_ShapeInvariant ==
    /\ [](\A x \in Objs : Rectangular(mats[x]))
    /\ [][last'[1] = "resize" =>
             \A y \in Objs \ {last'[2]} : mats'[y] = mats[y]]_vars

\* b was copied from a nonempty a, and a was then resized to another shape.
C7_Witness ==
    /\ last = <<"resize", "a", 1, 2>>
    /\ mats["b"].nrows_ = 2 /\ mats["b"].ncols_ = 1
    /\ At(mats["b"], 1, 0) /= Zero
    /\ mats["a"].nrows_ = 1 /\ mats["a"].ncols_ = 2

IdentityMatrix(n) ==
    [nrows_ |-> n, ncols_ |-> n,
     rows   |-> [i \in 1..n |-> [j \in 1..n |-> IF i = j THEN One ELSE Zero]]]

\* C1: when single-threaded inverse() returns a matrix for an n x n input,
\* n >= 1, the working copy has become the identity and the input times the
\* returned matrix is the identity.
C1_InverseIsInverse ==
    (status = "ok" /\ nthreads = 1 /\ nsize >= 1) =>
        /\ mat = IdentityMatrix(nsize)
        /\ opMul(self, ret) = Returned(IdentityMatrix(nsize))

\* A 3 x 3 input inverted to a matrix that is not diagonal.
C1_Witness ==
    /\ status = "ok" /\ nthreads = 1 /\ nsize = 3
    /\ At(ret, 0, 1) /= Zero
    /\ At(self, 1, 0) /= Zero

\* C2: inverse() ends by returning a matrix or by throwing with nothing
\* returned; it throws ShapeMismatch exactly when the matrix is not square,
\* and for a square matrix SingularMatrix exactly when a pivot mat[k][k],
\* k in 0..n-2, or a diagonal element mat[i][i], i in 0..n-1, tested below
\* _ZERO_LIMIT, as for [[1,2],[2,4]].
C2_FailsExactlyWhen ==
    phase = "done" =>
        /\ status \in {"ok", "ShapeMismatch", "SingularMatrix"}
        /\ (status = "ShapeMismatch") = (self.nrows_ /= self.ncols_)
        /\ self.nrows_ = self.ncols_ => ((status = "SingularMatrix") = lowPivot)
        /\ status /= "ok" => ret = "nothing"
        /\ self.rows = << <<Q(1), Q(2)>>, <<Q(2), Q(4)>> >> =>
                status = "SingularMatrix"

\* C8: between two barriers no two threads store to the same cell of mat or
\* of mat_inv.
C8_DisjointWrites ==
    \A t \in DOMAIN wr, u \in DOMAIN wr : t /= u => wr[t] \cap wr[u] = {}

\* C9: in normalization, in either definition, the coef a thread holds for
\* row i is the value mat[i][i] had when forward elimination ended.
C9_CoefIsForwardDiagonal ==
    \A t \in DOMAIN th :
        (phase = "normalize" /\
         th[t].pc \in {"N_sync", "N_mat_ld", "N_mat_st", "N_barrier1",
                       "N_inv_ld", "N_inv_st", "N_barrier2"}) =>
            th[t].coef = fwdDiag[th[t].k + 1]

\* C10: for a square matrix of any size n >= 0 the forward loop tests only
\* pivots k with 0 <= k <= n-2, none when n <= 1; no element outside the
\* storage is touched, and the call ends by its own return or throw, a
\* returned matrix being n x n.
C10_PivotsInRange ==
    /\ \A t \in DOMAIN th :
          th[t].pc = "F_check" => (0 <= th[t].k /\ th[t].k <= nsize - 2)
    /\ ~oob
    /\ status /= "crash"
    /\ status = "ok" =>
          ret.nrows_ = nsize /\ ret.ncols_ = nsize /\ Rectangular(ret)

====
